---- MODULE Spec2Model ----
(***************************************************************************)
(* Model of GeneralAgent (src/lib/agent-architecture/agents/               *)
(* general-agent.ts): the LinkedIn-first decision-maker discovery          *)
(* pipeline of execute, with its three asynchronous collaborators          *)
(* tools.search, tools.scrape and tools.extractStructuredData.             *)
(*                                                                         *)
(* A JavaScript string is a sequence of tokens (each token an atomic       *)
(* piece of text), so that String.prototype.includes is contiguous         *)
(* sub-sequence search, toLowerCase and replace work token by token and    *)
(* template literals are concatenations.  execute is one process; its      *)
(* position pc moves from one await to the next.                           *)
(***************************************************************************)
EXTENDS Integers, Sequences, FiniteSets, TLC

(***************************************************************************)
(* Strings                                                                 *)
(***************************************************************************)
\* the JavaScript value undefined where a string is optional
Undefined == <<"undefined">>
\* the JavaScript value null (companyLinkedInUrl: string | null)
Null == <<"null">>

\* truthiness of an optional string: undefined, null and "" are falsy
Truthy(s) == s # Undefined /\ s # Null /\ s # <<>>

\* a || b
Or(a, b) == IF Truthy(a) THEN a ELSE b

\* s.includes(t)
Includes(s, t) ==
  \E i \in 1..(Len(s) - Len(t) + 1) : SubSeq(s, i, i + Len(t) - 1) = t

\* one token of s.toLowerCase()
LowerTok(t) ==
  CASE t = "Acme" -> "acme"
    [] t = "Corp" -> "corp"
    [] t = "Chief" -> "chief"
    [] t = "Executive" -> "executive"
    [] t = "Officer" -> "officer"
    [] t = "Which" -> "which"
    [] t = "Sales" -> "sales"
    [] t = "Director" -> "director"
    [] OTHER -> t

\* s.toLowerCase()
ToLowerCase(s) == [i \in 1..Len(s) |-> LowerTok(s[i])]

\* \s matches the token
IsSpace(t) == t = " "

\* [^\w\s] matches the token (a punctuation mark)
IsPunct(t) == t \in {"?", ",", "."}

\* number of characters of a word (String.prototype.length)
WordLength(t) ==
  CASE t \in {"of", "in"} -> 2
    [] t \in {"the", "ceo", "cto"} -> 3
    [] t \in {"this", "that", "what", "when", "team"} -> 4
    [] t \in {"where", "which", "chief", "sales"} -> 5
    [] t \in {"sector", "market"} -> 6
    [] t \in {"company", "officer", "primary"} -> 7
    [] t \in {"industry", "director", "operates"} -> 8
    [] t = "executive" -> 9
    [] OTHER -> 1

\* s.replace(/\s+/g, by): every run of whitespace tokens becomes `by`
RECURSIVE ReplaceSpaces(_, _)
ReplaceSpaces(s, by) ==
  IF s = <<>> THEN <<>>
  ELSE IF IsSpace(Head(s))
       THEN IF Len(s) > 1 /\ IsSpace(s[2])
            THEN ReplaceSpaces(Tail(s), by)
            ELSE <<by>> \o ReplaceSpaces(Tail(s), by)
       ELSE <<Head(s)>> \o ReplaceSpaces(Tail(s), by)

\* s.replace(/-/g, ' ')
ReplaceHyphens(s) == [i \in 1..Len(s) |-> IF s[i] = "-" THEN " " ELSE s[i]]

\* s.replace(/[^\w\s]/g, ' ')
ReplacePunct(s) == [i \in 1..Len(s) |-> IF IsPunct(s[i]) THEN " " ELSE s[i]]

\* s.split(sep) for a one-token separator: the pieces between separators
RECURSIVE SplitOn(_, _, _)
SplitOn(s, sep, cur) ==
  IF s = <<>> THEN <<cur>>
  ELSE IF Head(s) = sep
       THEN <<cur>> \o SplitOn(Tail(s), sep, <<>>)
       ELSE SplitOn(Tail(s), sep, Append(cur, Head(s)))

\* Array.prototype.join
RECURSIVE Join(_, _)
Join(parts, sep) ==
  IF parts = <<>> THEN <<>>
  ELSE IF Len(parts) = 1 THEN parts[1]
  ELSE parts[1] \o sep \o Join(Tail(parts), sep)

\* concatenation of a sequence of sequences (flat collection of pushes)
RECURSIVE Flatten(_)
Flatten(ss) == IF ss = <<>> THEN <<>> ELSE Head(ss) \o Flatten(Tail(ss))

\* s.split(/\s+/): runs of whitespace separate; a leading or trailing run
\* leaves an empty piece
SplitSpaces(s) == SplitOn(ReplaceSpaces(s, " "), " ", <<>>)

(***************************************************************************)
(* Field classifier                                                        *)
(***************************************************************************)
executiveTitles ==
  <<"ceo", "cto", "cfo", "coo", "cmo", "cpo", "chief", "founder", "president",
    "director">>

isExecutiveField(field) ==
  LET name == ToLowerCase(field.name)
      desc == ToLowerCase(field.description)
  IN \E k \in 1..Len(executiveTitles) :
        Includes(name, <<executiveTitles[k]>>) \/ Includes(desc, <<executiveTitles[k]>>)

hasExecutiveFields(fields) == \E i \in 1..Len(fields) : isExecutiveField(fields[i])

extractTitle(field) ==
  LET name == ToLowerCase(field.name)
      desc == ToLowerCase(field.description)
  IN CASE Includes(name, <<"ceo">>) \/ Includes(desc, <<"chief", " ", "executive">>) -> <<"CEO">>
       [] Includes(name, <<"cto">>) \/ Includes(desc, <<"chief", " ", "technology">>) -> <<"CTO">>
       [] Includes(name, <<"cfo">>) \/ Includes(desc, <<"chief", " ", "financial">>) -> <<"CFO">>
       [] Includes(name, <<"coo">>) \/ Includes(desc, <<"chief", " ", "operating">>) -> <<"COO">>
       [] Includes(name, <<"cmo">>) \/ Includes(desc, <<"chief", " ", "marketing">>) -> <<"CMO">>
       [] Includes(name, <<"cpo">>) \/ Includes(desc, <<"chief", " ", "product">>) -> <<"CPO">>
       [] Includes(name, <<"founder">>) -> <<"founder">>
       [] Includes(name, <<"president">>) -> <<"president">>
       [] OTHER -> field.name

stopWords == {"this", "that", "what", "when", "where", "which"}

IsKeyWord(word) ==
  /\ Len(word) = 1
  /\ WordLength(word[1]) > 3
  /\ word[1] \notin stopWords

KeyPhraseLimit == 3

getSearchTermsForField(field) ==
  LET keyPhrases ==
        IF Truthy(field.description)
        THEN SelectSeq(SplitSpaces(ReplacePunct(ToLowerCase(field.description))), IsKeyWord)
        ELSE <<>>
      kept == SubSeq(keyPhrases, 1,
                     IF Len(keyPhrases) < KeyPhraseLimit THEN Len(keyPhrases)
                     ELSE KeyPhraseLimit)
  IN Join(<<field.name>> \o kept, <<" ">>)

(***************************************************************************)
(* URLs and query templates                                                *)
(***************************************************************************)
linkedinIn == <<"linkedin.com", "/", "in">>
linkedinCompany == <<"linkedin.com", "/", "company">>
linkedinAny == <<"linkedin.com">>

Quoted(s) == <<"\"">> \o s \o <<"\"">>

\* `https://${companyDomain}${path}`
SiteUrl(companyDomain, page) == <<"https://">> \o companyDomain \o <<"/", page>>

\* HELPER: Extract company name from LinkedIn URL.  new URL(...) throws
\* unless the text starts with a scheme; the catch returns ''.
extractLinkedInCompanyName(linkedinUrl) ==
  IF Len(linkedinUrl) < 2 \/ linkedinUrl[1] # "https://"
  THEN <<>>
  ELSE LET pathname == SubSeq(linkedinUrl, 3, Len(linkedinUrl))
           pathParts == SelectSeq(SplitOn(pathname, "/", <<>>), LAMBDA part : Len(part) > 0)
       IN IF Len(pathParts) >= 2 /\ pathParts[1] = <<"company">>
          THEN ReplaceHyphens(pathParts[2])
          ELSE <<>>

(***************************************************************************)
(* Anchor resolver: what findCompanyLinkedInPage returns for the outcome   *)
(* of its one search call                                                  *)
(***************************************************************************)
AnchorQuery(companyName) ==
  <<"site:">> \o linkedinCompany \o <<" ">> \o Quoted(companyName)

\* the catch of findCompanyLinkedInPage (lines 390-393)
AnchorCatch == Null

\* a resolver whose fallback is the first result, whatever its namespace
findCompanyLinkedInPageFirstResult(name, response) ==
  IF response.threw THEN AnchorCatch
  ELSE IF Len(response.results) = 0 THEN Null
  ELSE response.results[1].url

findCompanyLinkedInPage(name, response) ==
  IF response.threw THEN AnchorCatch
  ELSE LET searchResults == response.results
           slug == ReplaceSpaces(ToLowerCase(name), "-")
           companyPages ==
             SelectSeq(searchResults,
                    LAMBDA result : /\ Includes(result.url, linkedinCompany)
                                    /\ Includes(ToLowerCase(result.url), slug))
           anyCompanyPage ==
             SelectSeq(searchResults, LAMBDA result : Includes(result.url, linkedinCompany))
       IN IF Len(searchResults) = 0 THEN Null
          ELSE IF Len(companyPages) > 0 THEN companyPages[1].url
          ELSE IF Len(anyCompanyPage) > 0 THEN anyCompanyPage[1].url
          ELSE Null

(***************************************************************************)
(* Query synthesizer                                                       *)
(***************************************************************************)
Titles(fields) ==
  SelectSeq([i \in 1..Len(SelectSeq(fields, isExecutiveField)) |->
             extractTitle(SelectSeq(fields, isExecutiveField)[i])],
         Truthy)

\* the recency marker written into the last-resort query (line 435)
RecencyMarker == "2025"

\* STRATEGY 1: search within company LinkedIn page
AnchorScopedQueries(titles, companyName, companyLinkedInUrl) ==
  IF Truthy(companyLinkedInUrl)
  THEN << <<"site:">> \o linkedinIn \o <<" ">>
             \o Quoted(extractLinkedInCompanyName(companyLinkedInUrl))
             \o <<" ">> \o Join(titles, <<" ", "OR", " ">>),
          <<"site:">> \o linkedinIn \o <<" ">> \o Quoted(companyName)
             \o <<" ">> \o Join(titles, <<" ", "OR", " ">>) >>
  ELSE <<>>

\* STRATEGY 2: company-specific LinkedIn searches
CompanyProfileQueries(titles, companyName) ==
  IF Truthy(companyName)
  THEN [i \in 1..Len(titles) |->
          <<"site:">> \o linkedinIn \o <<" ">> \o Quoted(titles[i]) \o <<" ">>
             \o Quoted(companyName) \o <<" ", "current">>]
       \o << <<"site:">> \o linkedinIn \o <<" ">> \o Quoted(companyName)
                \o <<" ", "leadership", " ", "team">>,
             <<"site:">> \o linkedinIn \o <<" ">> \o Quoted(companyName)
                \o <<" ", "executives">> >>
  ELSE <<>>

\* STRATEGY 3: company website as backup
WebsiteQueries(companyDomain) ==
  IF Truthy(companyDomain)
  THEN << <<"site:">> \o companyDomain
             \o <<" ", "team", " ", "leadership", " ", "about", " ", "executives">>,
          <<"site:">> \o companyDomain \o <<" ", "about-us">> >>
  ELSE <<>>

\* STRATEGY 4: general web search (last resort)
LastResortQueries(titles, companyName) ==
  IF Truthy(companyName)
  THEN << Quoted(companyName) \o <<" ">> \o Join(titles, <<" ">>)
             \o <<" ", RecencyMarker>> >>
  ELSE <<>>

\* the queries of the executive tiers (lines 407-437)
ExecutiveQueries(fields, companyName, companyDomain, companyLinkedInUrl) ==
  IF Len(SelectSeq(fields, isExecutiveField)) > 0
  THEN AnchorScopedQueries(Titles(fields), companyName, companyLinkedInUrl)
       \o CompanyProfileQueries(Titles(fields), companyName)
       \o WebsiteQueries(companyDomain)
       \o LastResortQueries(Titles(fields), companyName)
  ELSE <<>>

\* the queries of one non-executive field (lines 440-450)
FieldQueries(field, companyName, companyDomain) ==
  (IF Truthy(companyName)
   THEN << Quoted(companyName) \o <<" ">> \o getSearchTermsForField(field) >>
   ELSE <<>>)
  \o
  (IF Truthy(companyDomain)
   THEN << <<"site:">> \o companyDomain \o <<" ">> \o getSearchTermsForField(field) >>
   ELSE <<>>)

OtherQueries(fields, companyName, companyDomain) ==
  LET otherFields == SelectSeq(fields, LAMBDA f : ~isExecutiveField(f))
  IN Flatten([i \in 1..Len(otherFields) |->
                 FieldQueries(otherFields[i], companyName, companyDomain)])

buildLinkedInFirstQueries(fields, companyName, companyDomain, companyLinkedInUrl) ==
  ExecutiveQueries(fields, companyName, companyDomain, companyLinkedInUrl)
  \o OtherQueries(fields, companyName, companyDomain)

(***************************************************************************)
(* Evidence ranker / merger                                                *)
(***************************************************************************)
IsLinkedInProfile(r) == Includes(r.url, linkedinIn) \/ Includes(r.url, linkedinCompany)

IsCompanySite(r, companyDomain) ==
  Truthy(companyDomain) /\ Includes(r.url, companyDomain)

\* a comparator that forgets the company-website preference
RankCompareNoSite(a, b, companyDomain) ==
  IF IsLinkedInProfile(a) /\ ~IsLinkedInProfile(b) THEN -1
  ELSE IF ~IsLinkedInProfile(a) /\ IsLinkedInProfile(b) THEN 1
  ELSE 0

\* the comparator handed to Array.prototype.sort (lines 135-150)
RankCompare(a, b, companyDomain) ==
  IF IsLinkedInProfile(a) /\ ~IsLinkedInProfile(b) THEN -1
  ELSE IF ~IsLinkedInProfile(a) /\ IsLinkedInProfile(b) THEN 1
  ELSE IF IsCompanySite(a, companyDomain) /\ ~IsCompanySite(b, companyDomain) THEN -1
  ELSE IF ~IsCompanySite(a, companyDomain) /\ IsCompanySite(b, companyDomain) THEN 1
  ELSE 0

\* Array.prototype.sort is stable (ECMAScript 2019): x goes behind every
\* element that does not compare greater than it
RECURSIVE InsertSorted(_, _, _)
InsertSorted(sorted, x, companyDomain) ==
  IF sorted = <<>> THEN <<x>>
  ELSE IF RankCompare(sorted[Len(sorted)], x, companyDomain) <= 0
       THEN Append(sorted, x)
       ELSE Append(InsertSorted(SubSeq(sorted, 1, Len(sorted) - 1), x, companyDomain),
                   sorted[Len(sorted)])

RECURSIVE SortFrom(_, _, _)
SortFrom(sorted, rest, companyDomain) ==
  IF rest = <<>> THEN sorted
  ELSE SortFrom(InsertSorted(sorted, Head(rest), companyDomain), Tail(rest), companyDomain)

rankedResults(allSearchResults, companyDomain) ==
  SortFrom(<<>>, allSearchResults, companyDomain)

\* a de-duplication that keeps the first record of every URL
uniqueResultsFirstWins(rankedSeq) ==
  LET firsts == { i \in 1..Len(rankedSeq) :
                    \A j \in 1..(i - 1) : rankedSeq[j].url # rankedSeq[i].url }
      NthFirst(n) == CHOOSE i \in firsts : Cardinality({ j \in firsts : j < i }) = n - 1
  IN [n \in 1..Cardinality(firsts) |-> rankedSeq[NthFirst(n)]]

\* Array.from(new Map(ranked.map(r => [r.url, r])).values()): a key keeps the
\* position of its first insertion and the value of its last
uniqueResults(rankedSeq) ==
  LET firsts == { i \in 1..Len(rankedSeq) : \A j \in 1..(i - 1) : rankedSeq[j].url # rankedSeq[i].url }
      LastOf(i) == CHOOSE j \in 1..Len(rankedSeq) :
                     /\ rankedSeq[j].url = rankedSeq[i].url
                     /\ \A k \in (j + 1)..Len(rankedSeq) : rankedSeq[k].url # rankedSeq[i].url
      NthFirst(n) == CHOOSE i \in firsts : Cardinality({ j \in firsts : j < i }) = n - 1
  IN [n \in 1..Cardinality(firsts) |-> rankedSeq[LastOf(NthFirst(n))]]

EvidenceLimit == 10

\* [...linkedInResults, ...otherResults].slice(0, 10)
prioritizedResults(unique) ==
  LET linkedInResults == SelectSeq(unique, LAMBDA r : Includes(r.url, linkedinAny))
      otherResults == SelectSeq(unique, LAMBDA r : ~Includes(r.url, linkedinAny))
      all == linkedInResults \o otherResults
  IN SubSeq(all, 1, IF Len(all) < EvidenceLimit THEN Len(all) ELSE EvidenceLimit)

\* one block of the evidence text
Block(r) ==
  <<"URL: ">> \o r.url \o <<"\nTitle: ">> \o Or(r.title, <<"No title">>)
     \o <<"\nContent:\n">> \o Or(r.markdown, Or(r.content, <<>>))

combinedContent(prioritized) ==
  Join(SelectSeq([i \in 1..Len(prioritized) |-> Block(prioritized[i])], Truthy),
       <<"\n\n---\n\n">>)

(***************************************************************************)
(* Extraction dispatcher                                                   *)
(***************************************************************************)
\* a filter that only tests the entry, not its value
RetainedAnyEntry(enrichment) == enrichment.present

\* enrichment && enrichment.value
Retained(enrichment) == enrichment.present /\ Truthy(enrichment.value)

\* the loop over Object.entries(enrichmentResults) (lines 226-230)
ProcessResults(enrichmentResults) == SelectSeq(enrichmentResults, Retained)

(***************************************************************************)
(* Inputs and collaborator responses                                       *)
(***************************************************************************)
AcmeName == <<"Acme", " ", "Corp">>
AcmeDomain == <<"acme.com">>

Context(name, discovered, guess, domain) ==
  [companyName |-> name,
   discoveredData |-> [companyName |-> discovered],
   emailContext |-> [companyDomain |-> domain, companyNameGuess |-> guess]]

Contexts ==
  { Context(Undefined, Undefined, Undefined, Undefined),
    Context(<<>>, Undefined, <<>>, <<>>),
    Context(AcmeName, Undefined, Undefined, AcmeDomain),
    Context(Undefined, Undefined, Undefined, AcmeDomain),
    Context(<<>>, AcmeName, Undefined, Undefined),
    Context(Undefined, Undefined, AcmeName, <<>>) }

CeoField ==
  [name |-> <<"ceo">>, description |-> <<"Chief", " ", "Executive", " ", "Officer">>]
IndustryField ==
  [name |-> <<"industry">>,
   description |-> <<"Which", " ", "market", " ", "the", " ", "company", " ", "operates", " ", "in", "?">>]

FieldLists == { <<>>, <<CeoField>>, <<IndustryField>>, <<CeoField, IndustryField>> }

Years == {"2025", "2026"}

Page(url, markdown) ==
  [url |-> url, title |-> Undefined, markdown |-> markdown, content |-> Undefined]

JaneUrl == <<"https://", "linkedin.com", "/", "in", "/", "jane">>
AcmePageUrl == <<"https://", "linkedin.com", "/", "company", "/", "acme", "-", "corp">>
OtherPageUrl == <<"https://", "linkedin.com", "/", "company", "/", "acme", "-", "inc">>
DomainPageUrl == <<"https://", "linkedin.com", "/", "company", "/", "acme.com">>
PulseUrl == <<"https://", "linkedin.com", "/", "pulse", "/", "acme">>
NewsUrl == <<"https://", "news.example", "/", "acme">>

\* the records a search of the pipeline may return
Pages ==
  { Page(JaneUrl, <<"m1">>),
    Page(SiteUrl(AcmeDomain, "about"), <<"m1">>) }

\* bound on the number of records the searches of one run return in total
MaxEvidence == 3

\* limit requested from tools.search by the query loop (line 90)
SearchLimit == 3

SeqsUpTo(S, n) == UNION { [1..k -> S] : k \in 0..n }

Threw == [threw |-> TRUE, results |-> <<>>]
Returned(list) == [threw |-> FALSE, results |-> list]

SearchResponses(room) ==
  {Threw} \cup { Returned(l) : l \in SeqsUpTo(Pages, IF room < SearchLimit THEN room ELSE SearchLimit) }

AnchorResponses ==
  { Threw,
    Returned(<<>>),
    Returned(<<Page(JaneUrl, <<"m1">>)>>),
    Returned(<<Page(OtherPageUrl, <<"m1">>)>>),
    Returned(<<Page(OtherPageUrl, <<"m1">>), Page(AcmePageUrl, <<"m1">>)>>) }

ScrapeThrew == [threw |-> TRUE, success |-> FALSE, markdown |-> Undefined]
Scraped(success, markdown) == [threw |-> FALSE, success |-> success, markdown |-> markdown]

ScrapeResponses ==
  { ScrapeThrew,
    Scraped(FALSE, Undefined),
    Scraped(TRUE, Undefined),
    Scraped(TRUE, <<>>),
    Scraped(TRUE, <<"Our team">>) }

Enrichment(name, present, value) == [name |-> name, present |-> present, value |-> value]

\* what one key of the extraction result may hold: a null entry, or an
\* entry whose value is undefined, "" or a text
EntriesOf(name) ==
  { Enrichment(name, FALSE, Undefined),
    Enrichment(name, TRUE, Undefined),
    Enrichment(name, TRUE, <<>>),
    Enrichment(name, TRUE, <<"Jane Doe">>) }

Mappings ==
  { <<>> } \cup { <<e>> : e \in EntriesOf("ceo") }
  \cup { <<c, f>> : c \in EntriesOf("ceo"), f \in EntriesOf("founder") \ {Enrichment("founder", FALSE, Undefined)} }

ExtractThrew == [threw |-> TRUE, mapping |-> <<>>]
ExtractResponses == {ExtractThrew} \cup { [threw |-> FALSE, mapping |-> m] : m \in Mappings }

NoResponse == Returned(<<>>)

(***************************************************************************)
(* State                                                                   *)
(***************************************************************************)
VARIABLES
  context, fields, currentYear,       \* the arguments of execute, the clock
  pc, outcome, results,               \* position; how execute ended; `results`
  companyName, companyDomain,         \* lines 46-50
  companyLinkedInUrl, searchQueries,  \* lines 65, 80
  qi, allSearchResults,               \* the query loop (lines 84-101)
  searchCalls, lastSearch,            \* calls of tools.search; the last answer
  scrapeLog, lastScrape,              \* calls of tools.scrape; the last answer
  collected,                          \* allSearchResults as handed to the sort
  ranked, unique, prioritized,        \* lines 135, 153, 169
  extractCalls, lastExtract           \* calls of extractStructuredData

inputs == <<context, fields, currentYear>>
identity == <<companyName, companyDomain>>
plan == <<companyLinkedInUrl, searchQueries>>
merged == <<collected, ranked, unique, prioritized>>
vars ==
  <<context, fields, currentYear, pc, outcome, results, companyName, companyDomain,
    companyLinkedInUrl, searchQueries, qi, allSearchResults, searchCalls, lastSearch,
    scrapeLog, lastScrape, collected, ranked, unique, prioritized, extractCalls,
    lastExtract>>

Init ==
  /\ context \in Contexts
  /\ fields \in FieldLists
  /\ currentYear \in Years
  /\ pc = "start"
  /\ outcome = "running"
  /\ results = <<>>
  /\ companyName = Undefined
  /\ companyDomain = Undefined
  /\ companyLinkedInUrl = Null
  /\ searchQueries = <<>>
  /\ qi = 1
  /\ allSearchResults = <<>>
  /\ searchCalls = <<>>
  /\ lastSearch = NoResponse
  /\ scrapeLog = <<>>
  /\ lastScrape = ScrapeThrew
  /\ collected = <<>>
  /\ ranked = <<>>
  /\ unique = <<>>
  /\ prioritized = <<>>
  /\ extractCalls = <<>>
  /\ lastExtract = ExtractThrew

(***************************************************************************)
(* execute, from one await to the next                                     *)
(***************************************************************************)
\* return map
Return(map) ==
  /\ pc' = "done"
  /\ outcome' = "returned"
  /\ results' = map

\* an exception leaves execute
Raise(partial) ==
  /\ pc' = "done"
  /\ outcome' = "raised"
  /\ results' = partial

\* a catch that logs and rethrows
TopLevelRethrow(partial) == Raise(partial)

\* the catch around the pipeline (lines 234-238): log, then return results
TopLevelCatch(partial) == Return(partial)

\* lines 134-169: sort in place, de-duplicate, return {} on no evidence,
\* else build the evidence handed to the extraction call
ToRank(evidence, domain) ==
  LET r == rankedResults(evidence, domain)
      u == uniqueResults(r)
  IN /\ collected' = evidence
     /\ allSearchResults' = r
     /\ ranked' = r
     /\ unique' = u
     /\ IF Len(u) = 0
        THEN /\ prioritized' = <<>>
             /\ Return(<<>>)
        ELSE /\ prioritized' = prioritizedResults(u)
             /\ pc' = "extract"
             /\ UNCHANGED <<outcome, results>>

\* line 104: the direct fetches are tried only for a known domain and an
\* executive field
ToScrape(evidence, domain) ==
  IF Truthy(domain) /\ hasExecutiveFields(fields)
  THEN /\ pc' = "scrape"
       /\ allSearchResults' = evidence
       /\ UNCHANGED <<outcome, results, merged>>
  ELSE ToRank(evidence, domain)

\* line 86: the loop over the synthesized queries
ToSearch(queries, domain) ==
  IF Len(queries) > 0
  THEN /\ pc' = "search"
       /\ allSearchResults' = <<>>
       /\ UNCHANGED <<outcome, results, merged>>
  ELSE ToScrape(<<>>, domain)

\* lines 72-84
AfterAnchor(name, domain, url) ==
  /\ companyLinkedInUrl' = url
  /\ searchQueries' = buildLinkedInFirstQueries(fields, name, domain, url)
  /\ ToSearch(buildLinkedInFirstQueries(fields, name, domain, url), domain)

\* a resolution that falls back to a placeholder name
ResolveNamePlaceholder(ctx) ==
  Or(ctx.companyName,
     Or(ctx.discoveredData.companyName,
        Or(ctx.emailContext.companyNameGuess, <<"Unknown">>)))

\* lines 46-50
ResolveName(ctx) ==
  Or(ctx.companyName, Or(ctx.discoveredData.companyName, ctx.emailContext.companyNameGuess))

ResolveDomain(ctx) == ctx.emailContext.companyDomain

\* lines 44-70: up to the first call
Start ==
  /\ pc = "start"
  /\ companyName' = ResolveName(context)
  /\ companyDomain' = ResolveDomain(context)
  /\ IF ~Truthy(ResolveName(context)) /\ ~Truthy(ResolveDomain(context))
     THEN /\ Return(<<>>)
          /\ UNCHANGED <<plan, allSearchResults, merged>>
     ELSE IF Truthy(ResolveName(context))
          THEN /\ pc' = "anchor"
               /\ UNCHANGED <<outcome, results, plan, allSearchResults, merged>>
          ELSE AfterAnchor(ResolveName(context), ResolveDomain(context), Null)
  /\ UNCHANGED <<inputs, qi, searchCalls, lastSearch, scrapeLog, lastScrape, extractCalls,
                 lastExtract>>

\* line 70: the search of findCompanyLinkedInPage and what follows its answer
AnchorStep ==
  /\ pc = "anchor"
  /\ \E response \in AnchorResponses :
       /\ searchCalls' = Append(searchCalls, AnchorQuery(companyName))
       /\ lastSearch' = response
       /\ AfterAnchor(companyName, companyDomain,
                      findCompanyLinkedInPage(companyName, response))
  /\ UNCHANGED <<inputs, identity, qi, scrapeLog, lastScrape, extractCalls, lastExtract>>

\* a loop whose failure handler starts the collection over
CollectResetOnFailure(all, response) ==
  IF response.threw THEN <<>>
  ELSE IF Len(response.results) > 0 THEN all \o response.results
  ELSE all

\* lines 87-100: one query; a failure is logged and skipped
Collect(all, response) ==
  IF response.threw THEN all
  ELSE IF Len(response.results) > 0 THEN all \o response.results
  ELSE all

\* line 86: the loop goes on to the next query
MoreQueries(i, queries) == i < Len(queries)

SearchStep ==
  /\ pc = "search"
  /\ \E response \in SearchResponses(MaxEvidence - Len(allSearchResults)) :
       /\ searchCalls' = Append(searchCalls, searchQueries[qi])
       /\ lastSearch' = response
       /\ qi' = qi + 1
       /\ IF MoreQueries(qi, searchQueries)
          THEN /\ allSearchResults' = Collect(allSearchResults, response)
               /\ UNCHANGED <<pc, outcome, results, merged>>
          ELSE ToScrape(Collect(allSearchResults, response), companyDomain)
  /\ UNCHANGED <<inputs, identity, plan, scrapeLog, lastScrape, extractCalls, lastExtract>>

\* line 111
ScrapePages == <<"about", "team", "leadership">>

\* a test that accepts a successful fetch whatever its content
ScrapeAcceptedAnyContent(response) == ~response.threw /\ response.success

\* line 114, and the catch of lines 124-127
ScrapeAccepted(response) ==
  ~response.threw /\ response.success /\ Truthy(response.markdown)

\* lines 115-120
LeadershipPage(url, markdown) ==
  [url |-> url, title |-> <<"Company Leadership Page">>, markdown |-> markdown,
   content |-> markdown]

\* lines 111-128: one direct fetch
ScrapeStep ==
  /\ pc = "scrape"
  /\ \E response \in ScrapeResponses :
       LET url == SiteUrl(companyDomain, ScrapePages[Len(scrapeLog) + 1])
       IN /\ scrapeLog' = Append(scrapeLog, [url |-> url, accepted |-> ScrapeAccepted(response)])
          /\ lastScrape' = response
          /\ IF ScrapeAccepted(response)
             THEN ToRank(Append(allSearchResults, LeadershipPage(url, response.markdown)),
                         companyDomain)
             ELSE IF Len(scrapeLog) + 1 < Len(ScrapePages)
                  THEN UNCHANGED <<pc, outcome, results, allSearchResults, merged>>
                  ELSE ToRank(allSearchResults, companyDomain)
  /\ UNCHANGED <<inputs, identity, plan, qi, searchCalls, lastSearch, extractCalls,
                 lastExtract>>

\* lines 219-238: the extraction call, the filter, the return
ExtractStep ==
  /\ pc = "extract"
  /\ \E response \in ExtractResponses :
       /\ extractCalls' =
            Append(extractCalls, [content |-> combinedContent(prioritized), fields |-> fields])
       /\ lastExtract' = response
       /\ IF response.threw
          THEN TopLevelCatch(results)
          ELSE Return(ProcessResults(response.mapping))
  /\ UNCHANGED <<inputs, identity, plan, qi, allSearchResults, searchCalls, lastSearch,
                 scrapeLog, lastScrape, merged>>

Next == Start \/ AnchorStep \/ SearchStep \/ ScrapeStep \/ ExtractStep

Spec == Init /\ [][Next]_vars

TypeOK ==
  /\ pc \in {"start", "anchor", "search", "scrape", "collected", "extract", "done"}
  /\ outcome \in {"running", "returned", "raised"}
  /\ qi \in 1..(Len(searchQueries) + 1)

(***************************************************************************)
(* The ranker / merger on its own: every collected evidence of up to       *)
(* MaxCollected records, at line 134 of a run for Acme Corp in which the   *)
(* anchor was not found, every query was issued and no direct fetch was    *)
(* accepted                                                                *)
(***************************************************************************)
RankPages ==
  { Page(JaneUrl, <<"m1">>),
    Page(DomainPageUrl, <<"m1">>),
    Page(PulseUrl, <<"m1">>),
    Page(SiteUrl(AcmeDomain, "about"), <<"m1">>),
    Page(SiteUrl(AcmeDomain, "about"), <<"m2">>),
    Page(NewsUrl, <<"m1">>) }

\* bound on the length of the collected evidence handed to the ranker
MaxCollected == 4

InitRank ==
  /\ \E domain \in {Undefined, AcmeDomain} :
       /\ context = Context(AcmeName, Undefined, Undefined, domain)
       /\ companyDomain = domain
       /\ searchQueries = buildLinkedInFirstQueries(<<CeoField>>, AcmeName, domain, Null)
       /\ qi = Len(buildLinkedInFirstQueries(<<CeoField>>, AcmeName, domain, Null)) + 1
       /\ searchCalls = <<AnchorQuery(AcmeName)>>
                          \o buildLinkedInFirstQueries(<<CeoField>>, AcmeName, domain, Null)
       /\ scrapeLog = IF Truthy(domain)
                      THEN [i \in 1..Len(ScrapePages) |->
                              [url |-> SiteUrl(domain, ScrapePages[i]), accepted |-> FALSE]]
                      ELSE <<>>
  /\ fields = <<CeoField>>
  /\ currentYear \in Years
  /\ pc = "collected"
  /\ outcome = "running"
  /\ results = <<>>
  /\ companyName = AcmeName
  /\ companyLinkedInUrl = Null
  /\ allSearchResults \in SeqsUpTo(RankPages, MaxCollected)
  /\ lastSearch = Threw
  /\ lastScrape = ScrapeThrew
  /\ collected = <<>>
  /\ ranked = <<>>
  /\ unique = <<>>
  /\ prioritized = <<>>
  /\ extractCalls = <<>>
  /\ lastExtract = ExtractThrew

\* lines 134-169
RankStep ==
  /\ pc = "collected"
  /\ ToRank(allSearchResults, companyDomain)
  /\ UNCHANGED <<inputs, identity, plan, qi, searchCalls, lastSearch, scrapeLog, lastScrape,
                 extractCalls, lastExtract>>

NextRank == RankStep

SpecRank == InitRank /\ [][NextRank]_vars

(***************************************************************************)
(* Properties of the ranker / merger (SpecRank)                            *)
(***************************************************************************)
\* the trust tier of a record: 0 for a professional-network individual or
\* company profile, 1 for a URL on the company's own domain, 2 otherwise
Tier(r) ==
  IF Includes(r.url, <<"linkedin.com", "/", "in">>)
     \/ Includes(r.url, <<"linkedin.com", "/", "company">>)
  THEN 0
  ELSE IF companyDomain \notin {Undefined, Null, <<>>} /\ Includes(r.url, companyDomain)
       THEN 1
       ELSE 2

OnNetwork(r) == Includes(r.url, <<"linkedin.com">>)

Ranked == pc \in {"extract", "done"} /\ collected # <<>>

FirstIndex(seq, url) ==
  CHOOSE i \in 1..Len(seq) : seq[i].url = url /\ \A j \in 1..(i - 1) : seq[j].url # url

LastIndex(seq, url) ==
  CHOOSE i \in 1..Len(seq) : seq[i].url = url /\ \A j \in (i + 1)..Len(seq) : seq[j].url # url

OnePerUrl ==
  /\ \A i, j \in 1..Len(unique) : i # j => unique[i].url # unique[j].url
  /\ { unique[i].url : i \in 1..Len(unique) } = { ranked[i].url : i \in 1..Len(ranked) }
  /\ \A i, j \in 1..Len(unique) :
        i < j => FirstIndex(ranked, unique[i].url) < FirstIndex(ranked, unique[j].url)

\* C4 as stated: de-duplication keeps exactly one record per distinct URL,
\* and that record is the one at the earliest position of the ranked order.
C4_FirstOccurrenceKept ==
  Ranked =>
    /\ OnePerUrl
    /\ \A i \in 1..Len(unique) : unique[i] = ranked[FirstIndex(ranked, unique[i].url)]

\* C4 amended: de-duplication keeps exactly one record per distinct URL, at
\* the position of the URL's first occurrence in the ranked order, and the
\* record kept is the one at the LATEST position of the ranked order.
C4_LastOccurrenceKept ==
  Ranked =>
    /\ OnePerUrl
    /\ \A i \in 1..Len(unique) : unique[i] = ranked[LastIndex(ranked, unique[i].url)]

\* two records with one URL and different content were ranked and merged
C4_Witness ==
  /\ Ranked
  /\ \E i, j \in 1..Len(ranked) :
        i < j /\ ranked[i].url = ranked[j].url /\ ranked[i] # ranked[j]
  /\ Len(unique) >= 2

\* C5 as stated: in the evidence handed to the extraction, every tier-0
\* record precedes every tier-1 record and every tier-1 record precedes
\* every tier-2 record.
C5_TiersInOrder ==
  Ranked =>
    \A i, j \in 1..Len(prioritized) :
       i < j => Tier(prioritized[i]) <= Tier(prioritized[j])

\* C5 amended: in the evidence handed to the extraction, every record whose
\* URL contains linkedin.com precedes every record whose URL does not;
\* among the records on either side of that split lower tier comes first,
\* so every tier-0 record precedes every tier-1 and tier-2 record, and a
\* tier-1 record precedes every tier-2 record that is not on linkedin.com.
C5_NetworkThenTiers ==
  Ranked =>
    \A i, j \in 1..Len(prioritized) :
       i < j =>
         /\ OnNetwork(prioritized[j]) => OnNetwork(prioritized[i])
         /\ OnNetwork(prioritized[i]) = OnNetwork(prioritized[j])
              => Tier(prioritized[i]) <= Tier(prioritized[j])
         /\ Tier(prioritized[j]) = 0 => Tier(prioritized[i]) = 0

\* a tier-2 record on linkedin.com was collected behind a tier-1 record and
\* a plain tier-2 record, and is handed over in front of both
C5_Witness ==
  /\ Ranked
  /\ \E i, j, k \in 1..Len(prioritized) :
        /\ i < j /\ j < k
        /\ Tier(prioritized[i]) = 2 /\ OnNetwork(prioritized[i])
        /\ Tier(prioritized[j]) = 1
        /\ Tier(prioritized[k]) = 2
  /\ Tier(collected[1]) = 2 /\ ~OnNetwork(collected[1])
  /\ Tier(collected[Len(collected)]) = 2 /\ OnNetwork(collected[Len(collected)])

\* the records of seq whose URL is u or v
Pair(seq, u, v) == SelectSeq(seq, LAMBDA r : r.url \in {u, v})

\* C6: any two collected records of the same trust tier with different
\* URLs appear in the ranked output in the relative order in which they
\* were collected.
C6_StableWithinTier ==
  Ranked =>
    \A a, b \in 1..Len(collected) :
       (Tier(collected[a]) = Tier(collected[b]) /\ collected[a].url # collected[b].url)
         => Pair(ranked, collected[a].url, collected[b].url)
              = Pair(collected, collected[a].url, collected[b].url)

\* C6 holds of the records of tier 1 and of tier 2
C6_StableBelowTierZero ==
  Ranked =>
    \A a, b \in 1..Len(collected) :
       (/\ Tier(collected[a]) = Tier(collected[b])
        /\ Tier(collected[a]) # 0
        /\ collected[a].url # collected[b].url)
         => Pair(ranked, collected[a].url, collected[b].url)
              = Pair(collected, collected[a].url, collected[b].url)

(***************************************************************************)
(* Properties of execute (Spec)                                            *)
(***************************************************************************)
Falsy(s) == s \in {Undefined, Null, <<>>}

NoIdentityInContext ==
  /\ Falsy(context.companyName)
  /\ Falsy(context.discoveredData.companyName)
  /\ Falsy(context.emailContext.companyNameGuess)
  /\ Falsy(context.emailContext.companyDomain)

\* C1: when neither a company name nor a company domain is resolvable from
\* the context, execute returns the empty mapping and calls none of
\* Search, Fetch and Extract.
C1_NoIdentityNoCalls ==
  (NoIdentityInContext /\ pc # "start") =>
    /\ pc = "done"
    /\ outcome = "returned"
    /\ results = <<>>
    /\ searchCalls = <<>>
    /\ scrapeLog = <<>>
    /\ extractCalls = <<>>

\* execute has returned for a context that holds only empty strings
C1_Witness ==
  /\ pc = "done"
  /\ NoIdentityInContext
  /\ context.companyName = <<>>
  /\ Len(fields) = 2

\* C2: execute never raises to its caller; whatever the collaborators
\* answer or throw, it ends by returning a mapping, after at most one
\* search per query (and one for the anchor), three fetches and one
\* extraction.
C2_NeverRaises ==
  /\ outcome # "raised"
  /\ pc = "done" => outcome = "returned"
  /\ pc # "done" => outcome = "running"
  /\ Len(searchCalls) <= Len(searchQueries) + 1
  /\ Len(scrapeLog) <= 3
  /\ Len(extractCalls) <= 1

\* execute has returned although the extraction call threw
C2_Witness ==
  /\ pc = "done"
  /\ outcome = "returned"
  /\ Len(extractCalls) = 1
  /\ lastExtract.threw
  /\ Len(scrapeLog) = 3

Kept(e) == e.present /\ ~Falsy(e.value)

\* C3: the mapping returned holds exactly the entries of the extraction
\* result whose value is truthy, and never a name the extraction did not
\* return.
C3_ExactlyTruthyEntries ==
  /\ \A i \in 1..Len(results) :
        \E j \in 1..Len(lastExtract.mapping) :
           lastExtract.mapping[j] = results[i] /\ Kept(results[i])
  /\ (pc = "done" /\ Len(extractCalls) = 1 /\ ~lastExtract.threw) =>
        \A j \in 1..Len(lastExtract.mapping) :
           Kept(lastExtract.mapping[j]) =>
              \E i \in 1..Len(results) : results[i] = lastExtract.mapping[j]

\* the extraction returned {ceo: {value: ""}, founder: {value: "Jane Doe"}}
\* and execute returned the founder entry alone
C3_Witness ==
  /\ pc = "done"
  /\ lastExtract = [threw |-> FALSE,
                    mapping |-> << Enrichment("ceo", TRUE, <<>>),
                                   Enrichment("founder", TRUE, <<"Jane Doe">>) >>]
  /\ results = << Enrichment("founder", TRUE, <<"Jane Doe">>) >>

Planned == pc \in {"search", "scrape", "extract"} \/ (pc = "done" /\ ~NoIdentityInContext)

\* the last query of the executive tiers
LastResortQuery ==
  searchQueries[Len(searchQueries)
                  - Len(OtherQueries(fields, companyName, companyDomain))]

\* C7: with a company name and an executive field, the last-resort query
\* contains the current year.
C7_LastResortHasCurrentYear ==
  (Planned /\ ~Falsy(companyName) /\ hasExecutiveFields(fields)) =>
     Includes(LastResortQuery, <<currentYear>>)

AnchorCalls == IF Falsy(companyName) THEN <<>> ELSE <<AnchorQuery(companyName)>>

Issued ==
  SubSeq(searchQueries, 1, IF pc = "search" THEN qi - 1 ELSE Len(searchQueries))

\* the evidence the collector holds after a step of the query loop
CollectedNext == IF pc' \in {"search", "scrape"} THEN allSearchResults' ELSE collected'

QueryStep ==
  pc = "search" =>
    /\ searchCalls' = Append(searchCalls, searchQueries[qi])
    /\ qi' = qi + 1
    /\ (qi < Len(searchQueries)) = (pc' = "search")
    /\ CollectedNext =
         allSearchResults \o (IF lastSearch'.threw THEN <<>> ELSE lastSearch'.results)

\* C8: every query of the list is issued exactly once, in list order,
\* whether or not earlier ones failed, and the evidence collected is the
\* concatenation of the successful answers in query order.
C8_EveryQueryIssuedInOrder ==
  /\ [](Planned => searchCalls = AnchorCalls \o Issued)
  /\ [][QueryStep]_vars

\* a query has failed behind collected evidence and the next one is due
C8_Witness ==
  /\ pc = "search"
  /\ lastSearch.threw
  /\ Len(allSearchResults) = 2
  /\ allSearchResults[1] # allSearchResults[2]
  /\ qi = 3
  /\ Len(searchQueries) >= 3

ScrapeDue == ~Falsy(companyDomain) /\ hasExecutiveFields(fields)

Synthetic(r) == r.title = <<"Company Leadership Page">>

LastAccepted == Len(scrapeLog) > 0 /\ scrapeLog[Len(scrapeLog)].accepted

FetchStep ==
  pc = "scrape" =>
    /\ Len(scrapeLog') = Len(scrapeLog) + 1
    /\ SubSeq(scrapeLog', 1, Len(scrapeLog)) = scrapeLog
    /\ scrapeLog'[Len(scrapeLog')].accepted =
         (/\ ~lastScrape'.threw
          /\ lastScrape'.success
          /\ ~Falsy(lastScrape'.markdown))
    /\ (pc' = "scrape") = (~scrapeLog'[Len(scrapeLog')].accepted /\ Len(scrapeLog') < 3)
    /\ pc' = "scrape" => allSearchResults' = allSearchResults
    /\ pc' # "scrape" =>
         collected' =
           IF scrapeLog'[Len(scrapeLog')].accepted
           THEN Append(allSearchResults,
                       [url |-> scrapeLog'[Len(scrapeLog')].url,
                        title |-> <<"Company Leadership Page">>,
                        markdown |-> lastScrape'.markdown,
                        content |-> lastScrape'.markdown])
           ELSE allSearchResults
    /\ outcome' # "raised"

\* C9: with a domain and an executive field the direct fetches go to
\* /about, /team, /leadership in that order; a later page is fetched if and
\* only if every earlier fetch threw, reported success=false or returned
\* empty content; at most one synthetic record is appended, for the first
\* accepted fetch; if all three fail the evidence is the search evidence.
C9_FetchesUntilFirstSuccess ==
  /\ []((ScrapeDue /\ pc \in {"scrape", "extract", "done"}) =>
          /\ Len(scrapeLog) <= 3
          /\ \A i \in 1..Len(scrapeLog) :
                /\ scrapeLog[i].url =
                     <<"https://">> \o companyDomain
                        \o <<"/", <<"about", "team", "leadership">>[i]>>
                /\ i < Len(scrapeLog) => ~scrapeLog[i].accepted
          /\ pc # "scrape" => (LastAccepted \/ Len(scrapeLog) = 3)
          /\ pc # "scrape" =>
                Cardinality({ i \in 1..Len(collected) : Synthetic(collected[i]) })
                  = IF LastAccepted THEN 1 ELSE 0)
  /\ [][FetchStep]_vars

\* all three fetches failed, the last one by throwing, and the pipeline
\* went on to the extraction with the search evidence
C9_Witness ==
  /\ pc = "extract"
  /\ Len(scrapeLog) = 3
  /\ ~LastAccepted
  /\ lastScrape.threw
  /\ Len(collected) = 2

InCompanyNamespace(r) == Includes(r.url, <<"linkedin.com", "/", "company">>)

AnchorFailed(response) ==
  \/ response.threw
  \/ \A i \in 1..Len(response.results) : ~InCompanyNamespace(response.results[i])

\* an anchor-scoped query: an individual-profile query that ends with the
\* titles joined by OR
AnchorScoped(q) ==
  LET tail == Join(Titles(fields), <<" ", "OR", " ">>)
  IN /\ Len(q) > Len(tail) + 4
     /\ SubSeq(q, 1, 4) = <<"site:", "linkedin.com", "/", "in">>
     /\ SubSeq(q, Len(q) - Len(tail) + 1, Len(q)) = tail

AnchorAnswered ==
  (pc = "anchor" /\ AnchorFailed(lastSearch')) =>
    /\ companyLinkedInUrl' = Null
    /\ \A i \in 1..Len(searchQueries') : ~AnchorScoped(searchQueries'[i])
    /\ outcome' # "raised"
    /\ Len(searchQueries') > 0 => pc' = "search" /\ qi' = 1

\* C10: when the anchor search throws or returns no company-profile
\* result, the resolver yields null, the anchor-scoped queries are left out
\* of the plan, and the pipeline issues the remaining queries and goes on
\* to ranking and extraction.
C10_AnchorFailureNotSurfaced ==
  /\ [][AnchorAnswered]_vars
  /\ []((pc \in {"extract", "done"} /\ ~Falsy(companyName) /\ companyLinkedInUrl = Null) =>
          /\ searchCalls = AnchorCalls \o searchQueries
          /\ pc = "extract" => prioritized # <<>>
          /\ pc = "done" => outcome = "returned"
          /\ (pc = "done" /\ unique # <<>>) => Len(extractCalls) = 1)

\* the anchor search threw and the first query of the remaining tiers is due
C10_Witness ==
  /\ pc = "search"
  /\ qi = 1
  /\ lastSearch.threw
  /\ searchCalls = <<AnchorQuery(companyName)>>
  /\ companyLinkedInUrl = Null
  /\ hasExecutiveFields(fields)

====
